---- MODULE Spec2Model ----
(***************************************************************************)
(* A model of the authy OAuth2 client engine: the session orchestrator     *)
(* (Authy.Authorize / Authy.Access), the oauth2 token exchange client and  *)
(* the Token entity with its Refresh operation.                            *)
(*                                                                         *)
(* Strings whose content the code inspects (scopes, expires_in, error      *)
(* texts) are sequences of one-character strings; opaque strings (keys,    *)
(* codes, token values) are TLA+ strings.  An optional value (a Go nil     *)
(* pointer, an absent result) is the empty sequence, a present one a       *)
(* one-element sequence.                                                   *)
(***************************************************************************)
EXTENDS Integers, Sequences, FiniteSets, TLC

VARIABLES
    providers,   \* Authy.providers: the registry NewAuthy built
    config,      \* Authy.config
    session,     \* the Session handed to Authorize and Access: key -> value
    nextState,   \* how many CSRF states oauth2.NewState has produced
    redirects,   \* per CSRF state, the authorization URL Authorize returned
    consumed,    \* history: <<provider, state>> for each state a successful
                 \* Access deleted, until Authorize starts the provider's next attempt
    failed,      \* history: <<provider, state>> for each state an Access
                 \* presented to a token exchange that failed, until an Access
                 \* deletes it or Authorize starts the provider's next attempt
    now,         \* time.Now(), in seconds
    token,       \* the caller's *Token, if it holds one
    client,      \* the TokenTransport of the http.Client the caller got from
                 \* Token.Client(), if it got one
    heap,        \* the header maps and value slices of the requests in use
    pc,          \* per goroutine, its position in the call it runs
    call         \* per goroutine, the arguments, locals and results of that call

vars ==
    <<providers, config, session, nextState, redirects, consumed, failed, now, token,
      client, heap, pc, call>>

----------------------------------------------------------------------------
(* Bounds of the model *)

\* CSRF states oauth2.NewState may hand out in one behaviour
MaxStates == 2
\* seconds the clock may advance
MaxClock == 1

\* goroutines that may call into the engine
Procs == {"main", "other"}

\* the goroutine of a caller that makes one call at a time
Main == "main"

----------------------------------------------------------------------------
(* strings *)

RECURSIVE Join(_, _)
\* strings.Join(elems, sep)
Join(elems, sep) ==
    IF Len(elems) = 0 THEN <<>>
    ELSE IF Len(elems) = 1 THEN elems[1]
    ELSE elems[1] \o sep \o Join(Tail(elems), sep)

RECURSIVE SplitFrom(_, _, _)
SplitFrom(s, sep, cur) ==
    IF Len(s) = 0 THEN <<cur>>
    ELSE IF Head(s) = sep THEN <<cur>> \o SplitFrom(Tail(s), sep, <<>>)
    ELSE SplitFrom(Tail(s), sep, Append(cur, Head(s)))

\* strings.Split(s, sep) for a separator of one character: every piece between
\* separators, so the empty string splits into one empty piece
Split(s, sep) == SplitFrom(s, sep, <<>>)

----------------------------------------------------------------------------
(* the session store: Get / Set / Delete, each atomic on one key *)

\* "authy." + name + "." + kind
Key(name, kind) == <<"authy", name, kind>>

NoSession == <<>>

SessionHas(s, k) == k \in DOMAIN s

SessionGet(s, k) == s[k]

SessionSet(s, k, v) == [x \in DOMAIN s \cup {k} |-> IF x = k THEN v ELSE s[x]]

SessionDelete(s, k) == [x \in DOMAIN s \ {k} |-> s[x]]

----------------------------------------------------------------------------
(* the provider registry and the client configuration *)

\* names a caller may pass; "zz" is registered nowhere
ProviderNames == {"gh", "fb", "sub", "v1", "zz"}

\* Authy.providers as NewAuthy builds it: each configured provider with the
\* registry's data attached.  "gh" requests two scopes; "fb" requests none, has
\* a subdomain and a callback of its own; "sub" needs a subdomain its
\* configuration does not give; "v1" speaks OAuth 1
NewAuthy ==
    [n \in {"gh", "fb", "sub", "v1"} |->
        IF n = "gh" THEN
            [Provider |-> [Name |-> "gh", OAuth |-> 2,
                           AuthorizeURL |-> <<"https://gh.example/authorize">>,
                           AccessURL |-> "https://gh.example/token",
                           Subdomain |-> FALSE, ScopeDelimiter |-> ",",
                           CustomParameters |-> <<>>],
             Key |-> "k1", Secret |-> "x1", Scope |-> <<<<"a">>, <<"b">>>>, State |-> "",
             Callback |-> "", Subdomain |-> "",
             CustomParameters |-> <<>>]
        ELSE IF n = "fb" THEN
            [Provider |-> [Name |-> "fb", OAuth |-> 2,
                           AuthorizeURL |-> <<"https://", "[subdomain]", ".fb.example/authorize">>,
                           AccessURL |-> "https://fb.example/token",
                           Subdomain |-> TRUE, ScopeDelimiter |-> " ",
                           CustomParameters |-> <<"access_type">>],
             Key |-> "k2", Secret |-> "x2", Scope |-> <<>>, State |-> "",
             Callback |-> "/home", Subdomain |-> "acme",
             CustomParameters |-> [k \in {"access_type", "other"} |-> "offline"]]
        ELSE IF n = "sub" THEN
            [Provider |-> [Name |-> "sub", OAuth |-> 2,
                           AuthorizeURL |-> <<"https://", "[subdomain]", ".sub.example/authorize">>,
                           AccessURL |-> "https://sub.example/token",
                           Subdomain |-> TRUE, ScopeDelimiter |-> " ",
                           CustomParameters |-> <<>>],
             Key |-> "k4", Secret |-> "x4", Scope |-> <<<<"a">>>>, State |-> "",
             Callback |-> "", Subdomain |-> "",
             CustomParameters |-> <<>>]
        ELSE
            [Provider |-> [Name |-> "v1", OAuth |-> 1,
                           AuthorizeURL |-> <<"https://v1.example/authorize">>,
                           AccessURL |-> "https://v1.example/token",
                           Subdomain |-> FALSE, ScopeDelimiter |-> ",",
                           CustomParameters |-> <<>>],
             Key |-> "k3", Secret |-> "x3", Scope |-> <<>>, State |-> "",
             Callback |-> "", Subdomain |-> "",
             CustomParameters |-> <<>>]]

\* the n-th value oauth2.NewState returns: 16 random bytes in hex, taken to be
\* a value no earlier call returned
NewState(n) == ToString(n)

States == {NewState(n) : n \in 1..MaxStates}

----------------------------------------------------------------------------
(* inbound requests *)

\* r.URL.Path, as its segments: "/authy/gh" is <<"authy", "gh">>
LoginPath == <<"authy", "gh">>

\* how a request arrives: plain, over TLS, or plain behind a proxy that sets
\* the X-HTTPS header
Transports ==
    {[TLS |-> FALSE, XHTTPS |-> FALSE], [TLS |-> TRUE, XHTTPS |-> FALSE],
     [TLS |-> FALSE, XHTTPS |-> TRUE]}

Request(path, via, state, code) ==
    [Host |-> "h", Path |-> path, TLS |-> via.TLS, XHTTPS |-> via.XHTTPS,
     state |-> state, code |-> code]

\* the requests Authorize sees: no query parameter matters to it
AuthorizeRequests == {Request(LoginPath, via, "", "") : via \in Transports}

\* the path of the callback route
CallbackPath == Append(LoginPath, "callback")

\* the callback requests Access sees
AccessRequests ==
    {Request(CallbackPath, via, state, code) :
        via \in Transports, state \in States \cup {""}, code \in {"", "c1"}}

NoRequest ==
    [Host |-> "", Path |-> <<>>, TLS |-> FALSE, XHTTPS |-> FALSE,
     state |-> "", code |-> ""]

----------------------------------------------------------------------------
(* package oauth2: URLs *)

RECURSIVE PathString(_)
\* the text of a path: "/" before every segment
PathString(path) ==
    IF Len(path) = 0 THEN <<>>
    ELSE <<"/", Head(path)>> \o PathString(Tail(path))

\* url.URL.String() of a URL with a scheme, a host and a path
URLString(u) == <<u.Scheme, "://", u.Host>> \o PathString(u.Path)

\* the redirect_uri of a request: its host, its path + "/callback", and https
\* when the connection is TLS or the X-HTTPS header is present
genCallbackURL(cfg, r) ==
    URLString([Host |-> r.Host,
               Path |-> Append(r.Path, "callback"),
               Scheme |-> IF r.TLS \/ r.XHTTPS THEN "https" ELSE "http"])

\* strings.Replace(baseUrl, "[subdomain]", subdomain, -1) on the parts of a URL
ReplaceSubdomain(baseUrl, subdomain) ==
    [i \in 1..Len(baseUrl) |->
        IF baseUrl[i] = "[subdomain]" THEN subdomain ELSE baseUrl[i]]

\* query.Values of an authorizationRequest: the fields tagged omitempty are
\* left out when empty
AuthorizationValues(cfg, r) ==
    LET scope == Join(cfg.Scope, <<cfg.Provider.ScopeDelimiter>>)
        keys  == {"client_id", "response_type", "redirect_uri"}
                 \cup (IF scope = <<>> THEN {} ELSE {"scope"})
                 \cup (IF cfg.State = "" THEN {} ELSE {"state"})
    IN  [k \in keys |->
            CASE k = "client_id"     -> cfg.Key
              [] k = "response_type" -> "code"
              [] k = "redirect_uri"  -> genCallbackURL(cfg, r)
              [] k = "scope"         -> scope
              [] k = "state"         -> cfg.State]

\* the custom parameters the provider supports and the configuration gives
CustomValues(cfg, values) ==
    LET names == {cfg.Provider.CustomParameters[i] :
                     i \in 1..Len(cfg.Provider.CustomParameters)}
        given == names \cap DOMAIN cfg.CustomParameters
    IN  [k \in DOMAIN values \cup given |->
            IF k \in given THEN cfg.CustomParameters[k] ELSE values[k]]

NoURL == [base |-> <<>>, query |-> <<>>]

\* the nil error
NoErr == [type |-> "", msg |-> "", detail |-> <<>>]

\* errors.New(msg)
Error(msg) == [type |-> "error", msg |-> msg, detail |-> <<>>]

\* oauth2.AuthorizeURL: [dest, err]
AuthorizeURL(cfg, r) ==
    IF cfg.Provider.Subdomain /\ cfg.Subdomain = ""
    THEN [dest |-> NoURL,
          err |-> Error("provider expects the config to contain your subdomain")]
    ELSE LET baseUrl == IF cfg.Provider.Subdomain
                        THEN ReplaceSubdomain(cfg.Provider.AuthorizeURL, cfg.Subdomain)
                        ELSE cfg.Provider.AuthorizeURL
         IN  [dest |-> [base |-> baseUrl,
                        query |-> CustomValues(cfg, AuthorizationValues(cfg, r))],
              err |-> NoErr]

----------------------------------------------------------------------------
(* package oauth2: numbers and times *)

Digits == <<"0", "1", "2", "3", "4", "5", "6", "7", "8", "9">>

IsDigit(c) == \E i \in 1..10 : Digits[i] = c

DigitVal(c) == (CHOOSE i \in 1..10 : Digits[i] = c) - 1

RECURSIVE Normal(_)
\* a numeral without its leading zeros
Normal(ds) == IF Len(ds) > 0 /\ Head(ds) = "0" THEN Normal(Tail(ds)) ELSE ds

RECURSIVE LexLess(_, _)
LexLess(a, b) ==
    IF Len(a) = 0 THEN FALSE
    ELSE IF Head(a) # Head(b) THEN DigitVal(Head(a)) < DigitVal(Head(b))
    ELSE LexLess(Tail(a), Tail(b))

\* a < b for two numerals without leading zeros
NumLess(a, b) == Len(a) < Len(b) \/ (Len(a) = Len(b) /\ LexLess(a, b))

RECURSIVE NumValue(_, _)
\* the number a numeral below 2^31 writes
NumValue(ds, acc) ==
    IF Len(ds) = 0 THEN acc ELSE NumValue(Tail(ds), acc * 10 + DigitVal(Head(ds)))

\* 1<<32 - 1, the largest value of ParseUint(s, 10, 32)
MaxUint32 == <<"4", "2", "9", "4", "9", "6", "7", "2", "9", "5">>

\* 1<<31, the cutoff of ParseInt(s, 10, 32)
Cutoff32 == <<"2", "1", "4", "7", "4", "8", "3", "6", "4", "8">>

RECURSIVE ParseUintFrom(_, _)
\* the loop of strconv.ParseUint(s, 10, 32): stops at the first character that
\* is no digit (syntax) or at the first digit that takes the number over
\* MaxUint32 (range)
ParseUintFrom(s, acc) ==
    IF Len(s) = 0 THEN [un |-> acc, err |-> ""]
    ELSE IF ~IsDigit(Head(s)) THEN [un |-> <<>>, err |-> "syntax"]
    ELSE LET n1 == Normal(Append(acc, Head(s)))
         IN  IF NumLess(MaxUint32, n1) THEN [un |-> MaxUint32, err |-> "range"]
             ELSE ParseUintFrom(Tail(s), n1)

ParseUint(s) ==
    IF Len(s) = 0 THEN [un |-> <<>>, err |-> "syntax"] ELSE ParseUintFrom(s, <<>>)

\* strconv.ParseInt(s, 10, 32): [n, err], err "" when s writes an int32
ParseInt(s) ==
    IF Len(s) = 0 THEN [n |-> 0, err |-> "syntax"]
    ELSE LET neg  == Head(s) = "-"
             rest == IF Head(s) \in {"+", "-"} THEN Tail(s) ELSE s
             u    == ParseUint(rest)
         IN  IF u.err = "syntax" THEN [n |-> 0, err |-> "syntax"]
             ELSE IF ~neg /\ ~NumLess(u.un, Cutoff32)
                  THEN [n |-> 2147483647, err |-> "range"]
             ELSE IF neg /\ NumLess(Cutoff32, u.un)
                  THEN [n |-> (-2147483647) - 1, err |-> "range"]
             ELSE IF u.un = Cutoff32 THEN [n |-> (-2147483647) - 1, err |-> ""]
             ELSE [n |-> IF neg THEN -NumValue(u.un, 0) ELSE NumValue(u.un, 0),
                   err |-> ""]

\* a time.Time: `add` seconds after the clock read `base`
Time(base, add) == [base |-> base, add |-> add]

\* time.Now().After(t) when the clock reads `clock`
NowAfter(clock, t) == clock - t.base > t.add

----------------------------------------------------------------------------
(* package oauth2: the token exchange client *)

\* the error code of a response Authy cannot read
InvalidResponse == <<"invalid_response">>

\* characters outside [[:print:]]
NonPrintable == {"\t"}

\* errorTextRe.ReplaceAllString(s, ""): drops the non-printable characters and
\* the backslashes
StripText(s) == SelectSeq(s, LAMBDA c : c \notin NonPrintable \cup {"\\"})

\* errorURIRe.ReplaceAllString(s, ""): drops the spaces too
StripURI(s) == SelectSeq(s, LAMBDA c : c \notin NonPrintable \cup {"\\", " "})

ErrorTexts == {<<>>, <<"e">>, <<"\\">>, <<"e", "\t">>}

ExpiresTexts ==
    {<<>>, <<"6", "0">>, <<"x">>, <<"-", "5">>,
     <<"9", "9", "9", "9", "9", "9", "9", "9", "9", "9", "9">>}

ScopeTexts == {<<>>, <<"r", ",", "w">>}

\* url.Values of a response body carrying an `error` key
ErrorValues ==
    [hasError : {TRUE}, error : ErrorTexts,
     error_description : {<<"d", "\\">>}, error_uri : {<<"u", " ">>},
     access_token : {"", "new"}, token_type : {"bearer"},
     refresh_token : {""}, scope : {<<>>}, expires_in : {<<>>}]

\* url.Values of a response body without one: a complete token response, or
\* one that lacks access_token or token_type
TokenValues ==
    [hasError : {FALSE}, error : {<<>>},
     error_description : {<<>>}, error_uri : {<<>>},
     access_token : {"new"}, token_type : {"bearer"},
     refresh_token : {"", "r2"}, scope : ScopeTexts, expires_in : ExpiresTexts]
    \cup
    [hasError : {FALSE}, error : {<<>>},
     error_description : {<<>>}, error_uri : {<<>>},
     access_token : {"", "new"}, token_type : {"", "bearer"},
     refresh_token : {"r2"}, scope : {<<>>}, expires_in : {<<"6", "0">>}]

NoValues ==
    [hasError |-> FALSE, error |-> <<>>,
     error_description |-> <<>>, error_uri |-> <<>>,
     access_token |-> "", token_type |-> "",
     refresh_token |-> "", scope |-> <<>>, expires_in |-> <<>>]

\* what http.PostForm, ioutil.ReadAll and url.ParseQuery may come back with:
\* a transport failure, a body that is no query string, or the parsed values
Responses ==
    {[kind |-> k, values |-> NoValues] : k \in {"network", "badquery"}}
    \cup {[kind |-> "values", values |-> v] : v \in ErrorValues \cup TokenValues}

\* an error of http.PostForm, ioutil.ReadAll or url.ParseQuery
TransportError(kind) == [type |-> kind, msg |-> "", detail |-> <<>>]

\* an oauth2.Error value
OAuth2Error(code, description, uri, raw) ==
    [type |-> "oauth2.Error", msg |-> "",
     detail |-> <<[Code |-> code, Description |-> description, URI |-> uri,
                   Raw |-> raw]>>]

\* an error that keeps an empty code
NewErrorAsGiven(response) ==
    OAuth2Error(StripText(response.error), StripText(response.error_description),
                StripURI(response.error_uri), response)

\* oauth2.NewError
NewError(response) ==
    LET code == StripText(response.error)
    IN  IF code = <<>>
        THEN OAuth2Error(InvalidResponse,
                         <<"The response generated by the server could not be parsed by Authy">>,
                         <<>>, response)
        ELSE OAuth2Error(code, StripText(response.error_description),
                         StripURI(response.error_uri), response)

\* the zero oauth2.Token
ZeroToken ==
    [AccessToken |-> "", Scope |-> <<>>, Type |-> "", Expires |-> <<>>,
     RefreshToken |-> ""]

\* oauth2.parseTokenResponse at clock reading `clock`: [token, err]
parseTokenResponse(cfg, values, clock) ==
    LET t0 == [ZeroToken EXCEPT !.AccessToken = values.access_token,
                                !.Type = values.token_type,
                                !.RefreshToken = values.refresh_token]
    IN  IF t0.AccessToken = "" \/ t0.Type = ""
        THEN [token |-> t0,
              err |-> OAuth2Error(InvalidResponse,
                         <<"The response returned by the server couldn't be parsed by Authy">>,
                         <<>>, values)]
        ELSE LET t1 == IF values.scope # <<>>
                       THEN [t0 EXCEPT !.Scope = Split(values.scope, cfg.Provider.ScopeDelimiter)]
                       ELSE t0
                 parsed == ParseInt(values.expires_in)
                 t2 == IF values.expires_in # <<>> /\ parsed.err # ""
                       THEN [t1 EXCEPT !.Expires = <<Time(clock, parsed.n)>>]
                       ELSE t1
             IN  [token |-> t2, err |-> NoErr]

\* the part of GetAccessToken and Refresh after the request is built: [token, err]
ReadResponse(cfg, resp, clock) ==
    IF resp.kind # "values" THEN [token |-> ZeroToken, err |-> TransportError(resp.kind)]
    ELSE IF resp.values.hasError THEN [token |-> ZeroToken, err |-> NewError(resp.values)]
    ELSE parseTokenResponse(cfg, resp.values, clock)

\* the form GetAccessToken posts to the provider's access URL
AccessTokenRequest(cfg, r) ==
    [url |-> cfg.Provider.AccessURL,
     form |-> [k \in {"client_id", "client_secret", "grant_type", "code", "redirect_uri"} |->
                CASE k = "client_id"     -> cfg.Key
                  [] k = "client_secret" -> cfg.Secret
                  [] k = "grant_type"    -> "authorization_code"
                  [] k = "code"          -> r.code
                  [] k = "redirect_uri"  -> genCallbackURL(cfg, r)]]

\* oauth2.GetAccessToken: [request, token, err]
GetAccessToken(cfg, r, resp, clock) ==
    LET res == ReadResponse(cfg, resp, clock)
    IN  [request |-> AccessTokenRequest(cfg, r), token |-> res.token, err |-> res.err]

\* the form oauth2.Refresh posts: refresh_token is read from the named result
\* `token`, which is still the zero Token when the form is built
RefreshTokenRequest(cfg, originalToken) ==
    LET tok == ZeroToken
    IN  [url |-> cfg.Provider.AccessURL,
         form |-> [k \in {"grant_type", "refresh_token"} |->
                    CASE k = "grant_type"    -> "refresh_token"
                      [] k = "refresh_token" -> tok.RefreshToken]]

\* oauth2.Refresh: [request, token, err]
Refresh(cfg, originalToken, resp, clock) ==
    LET res == ReadResponse(cfg, resp, clock)
    IN  [request |-> RefreshTokenRequest(cfg, originalToken),
         token |-> res.token, err |-> res.err]

----------------------------------------------------------------------------
(* package authy: tokens *)

\* authy.tokenFromOAuth2 (the token's engine is the one engine of the model)
tokenFromOAuth2(provider, t) ==
    [Version |-> 2, Provider |-> provider, Value |-> t.AccessToken,
     Scope |-> t.Scope, Type |-> t.Type, Expires |-> t.Expires,
     RefreshToken |-> t.RefreshToken]

\* Token.oauth2
oauth2(t) ==
    [AccessToken |-> t.Value, Scope |-> t.Scope, Type |-> t.Type,
     Expires |-> t.Expires, RefreshToken |-> t.RefreshToken]

\* a check that forgets the refresh token
IsRefreshableByVersion(t) == t.Version = 2

\* Token.IsRefreshable
IsRefreshable(t) == t.Version = 2 /\ t.RefreshToken # ""

\* the tokens TokenFromSerialized may decode
SerializedTokens ==
    [Version : {1, 2}, Provider : {"gh", "zz"}, Value : {"abc"},
     Scope : {<<>>, <<<<"a">>>>}, Type : {"bearer"},
     Expires : {<<>>, <<Time(0, 0)>>, <<Time(0, 1)>>}, RefreshToken : {"", "r1"}]

\* a token that never expires
ExpiredNever(t, clock) == FALSE

\* a token that has expired once the clock reads its expiry
ExpiredAtOrAfter(t, clock) ==
    t.Expires # <<>> /\ clock - t.Expires[1].base >= t.Expires[1].add

\* Token.Expired when the clock reads `clock`
Expired(t, clock) == t.Expires # <<>> /\ NowAfter(clock, t.Expires[1])

----------------------------------------------------------------------------
(* http.Header values: a header map is a reference to a map from names to   *)
(* references to []string slices                                            *)

\* no request in use
NoHeap == [maps |-> <<>>, slices |-> <<>>]

\* f with x mapped to v
With(f, x, v) == [y \in DOMAIN f \cup {x} |-> IF y = x THEN v ELSE f[y]]

\* the slice made by `how` for the entry `name` of map m
SliceOf(m, name, how) == <<m, name, how>>

\* the heap once map m holds a new slice `val` under `name`
SetHeader(h, m, name, val, how) ==
    [maps |-> With(h.maps, m, With(h.maps[m], name, SliceOf(m, name, how))),
     slices |-> With(h.slices, SliceOf(m, name, how), val)]

\* the heap once m is a new map holding the slices of `headers`
MakeHeader(h, m, headers, how) ==
    [maps |-> With(h.maps, m, [n \in DOMAIN headers |-> SliceOf(m, n, how)]),
     slices |-> [x \in DOMAIN h.slices \cup {SliceOf(m, n, how) : n \in DOMAIN headers} |->
                    IF x \in DOMAIN h.slices THEN h.slices[x] ELSE headers[x[2]]]]

\* the headers one reads through map m
ReadHeader(h, m) == [n \in DOMAIN h.maps[m] |-> h.slices[h.maps[m][n]]]

\* a copy of map `from` whose entries are the slices of `from` themselves
ShareHeader(h, from, to) == [h EXCEPT !.maps = With(h.maps, to, h.maps[from])]

\* make(http.Header) filled with a copy of each value slice of `from`
CopyHeader(h, from, to) == MakeHeader(h, to, ReadHeader(h, from), "copy")

\* the header maps of the caller's request and of RoundTrip's newReq
ReqHeader == "req"

NewReqHeader == "newReq"

\* the headers a caller's request may carry
RequestHeaders ==
    {<<>>,
     [n \in {"Accept"} |-> <<"json">>],
     [n \in {"Accept", "Authorization"} |->
         IF n = "Accept" THEN <<"json", "xml">> ELSE <<"Basic pw">>]}

----------------------------------------------------------------------------
(* calls *)

\* a goroutine outside any call
NoCall ==
    [op |-> "", providerName |-> "", r |-> NoRequest, state |-> "",
     originalScope |-> <<>>, sent |-> <<>>, resp |-> <<>>, exchanged |-> <<>>,
     token |-> <<>>, dest |-> NoURL, redirectUrl |-> "", err |-> NoErr,
     entry |-> NoSession, consumed |-> {}, failed |-> {}, before |-> <<>>, clock |-> 0,
     expired |-> <<>>, tt |-> <<>>, headers |-> <<>>, handed |-> <<>>]

\* goroutine p moves to `at` with its call record `c`
Goto(p, at, c) ==
    /\ pc' = [pc EXCEPT ![p] = at]
    /\ call' = [call EXCEPT ![p] = c]

Init ==
    /\ providers = NewAuthy
    /\ config = [Callback |-> "/"]
    /\ session = NoSession
    /\ nextState = 0
    /\ redirects = <<>>
    /\ consumed = {}
    /\ failed = {}
    /\ now = 0
    /\ token = <<>>
    /\ client = <<>>
    /\ heap = NoHeap
    /\ pc = [p \in Procs |-> "idle"]
    /\ call = [p \in Procs |-> NoCall]

----------------------------------------------------------------------------
(* Authy.Authorize *)

\* Authorize up to its first session write: the provider lookup, the version
\* check, oauth2.NewState (randOk: the random source can be read) and
\* session.Set of the state
AuthorizeSetState(p, providerName, r, randOk) ==
    LET c == [NoCall EXCEPT !.op = "Authorize", !.providerName = providerName,
                            !.r = r, !.entry = session, !.consumed = consumed,
                            !.failed = failed]
        known == providerName \in DOMAIN providers
        state == NewState(nextState + 1)
    IN  /\ pc[p] = "idle"
        /\ (known /\ providers[providerName].Provider.OAuth = 2 /\ randOk)
               => nextState < MaxStates
        /\ IF ~known
           THEN /\ Goto(p, "done", [c EXCEPT !.err = Error("unknown provider")])
                /\ UNCHANGED <<session, nextState, consumed, failed>>
           ELSE IF providers[providerName].Provider.OAuth # 2
           THEN /\ Goto(p, "done", [c EXCEPT !.err = Error("Not Implemented")])
                /\ UNCHANGED <<session, nextState, consumed, failed>>
           ELSE IF ~randOk
           THEN /\ Goto(p, "done", [c EXCEPT !.err = Error("rand.Read failed")])
                /\ UNCHANGED <<session, nextState, consumed, failed>>
           ELSE /\ nextState' = nextState + 1
                /\ session' = SessionSet(session, Key(providerName, "state"), state)
                /\ consumed' = {x \in consumed : x[1] # providerName}
                /\ failed' = {x \in failed : x[1] # providerName}
                /\ Goto(p, "authorize_scope", [c EXCEPT !.state = state])
        /\ UNCHANGED <<providers, config, client, heap, redirects, now, token>>

\* a configuration handed on without the state
WithoutState(cfg, state) == cfg

\* providerConfig.State = state
WithState(cfg, state) == [cfg EXCEPT !.State = state]

\* a registry that keeps the configuration Authorize has put the state in
RegistryWithState(registry, providerName, providerConfig) ==
    [registry EXCEPT ![providerName] = providerConfig]

\* a.providers after Authorize has put the state in providerConfig: the map
\* holds ProviderConfig values, and providerConfig is a copy of the entry
RegistryAfterAuthorize(registry, providerName, providerConfig) == registry

\* the rest of Authorize: session.Set of the joined scope, then the
\* authorization URL, built from a copy of the provider's configuration that
\* carries the state
AuthorizeSetScope(p) ==
    LET c == call[p]
        providerConfig == WithState(providers[c.providerName], c.state)
        built == AuthorizeURL(providerConfig, c.r)
    IN  /\ pc[p] = "authorize_scope"
        /\ providers' = RegistryAfterAuthorize(providers, c.providerName, providerConfig)
        /\ session' = SessionSet(session, Key(c.state, "scope"),
                                 Join(providers[c.providerName].Scope, <<",">>))
        /\ Goto(p, "done", [c EXCEPT !.dest = built.dest, !.err = built.err])
        /\ redirects' = IF built.err = NoErr
                        THEN [s \in DOMAIN redirects \cup {c.state} |->
                                 IF s = c.state THEN built.dest ELSE redirects[s]]
                        ELSE redirects
        /\ UNCHANGED <<config, failed, client, heap, nextState, consumed, now, token>>

----------------------------------------------------------------------------
(* Authy.Access *)

\* Access up to its first session read: the provider lookup, the version check
\* and session.Get of the state
AccessGetState(p, providerName, r) ==
    LET c == [NoCall EXCEPT !.op = "Access", !.providerName = providerName,
                            !.r = r, !.entry = session, !.consumed = consumed,
                            !.failed = failed]
        known == providerName \in DOMAIN providers
        key == Key(providerName, "state")
    IN  /\ pc[p] = "idle"
        /\ IF ~known
           THEN Goto(p, "done", [c EXCEPT !.err = Error("unknown provider")])
           ELSE IF providers[providerName].Provider.OAuth # 2
           THEN Goto(p, "done", [c EXCEPT !.err = Error("Not Implemented")])
           ELSE IF ~SessionHas(session, key)
           THEN Goto(p, "done",
                     [c EXCEPT !.err = Error("state token is not set in session, possible CSRF")])
           ELSE Goto(p, "access_scope", [c EXCEPT !.state = SessionGet(session, key)])
        /\ UNCHANGED <<providers, config, failed, client, heap, session, nextState, redirects, consumed, now, token>>

\* a comparison that lets every `state` query parameter through
StateMatchesAlways(stateParam, state) == TRUE

\* the `state` query parameter is the stored state, compared as strings
StateMatches(stateParam, state) == stateParam = state

\* a check that finds a code in every callback
CodeMissingNever(code) == FALSE

\* the `code` query parameter is empty or absent
CodeMissing(code) == code = ""

\* the comparison with the `state` query parameter, session.Get of the scope
\* (whose type assertion panics when the entry is gone) and the check of `code`
AccessGetScope(p) ==
    LET c == call[p]
        key == Key(c.state, "scope")
    IN  /\ pc[p] = "access_scope"
        /\ IF ~StateMatches(c.r.state, c.state)
           THEN Goto(p, "done",
                     [c EXCEPT !.err = Error("invalid state param provided, possible CSRF")])
           ELSE IF ~SessionHas(session, key)
           THEN Goto(p, "done",
                     [c EXCEPT !.err = [type |-> "panic",
                                        msg |-> "interface conversion: interface is nil, not string",
                                        detail |-> <<>>]])
           ELSE LET c1 == [c EXCEPT !.originalScope = Split(SessionGet(session, key), ",")]
                IN  IF CodeMissing(c.r.code)
                    THEN Goto(p, "done",
                              [c1 EXCEPT !.err = Error("code was not found in the query parameters")])
                    ELSE Goto(p, "access_exchange", c1)
        /\ UNCHANGED <<providers, config, failed, client, heap, session, nextState, redirects, consumed, now, token>>

\* an Access that deletes the state before it asks the provider for the token
AccessExchangeAfterDelete(p, resp) ==
    LET c == call[p]
        got == GetAccessToken(providers[c.providerName], c.r, resp, now)
        c1 == [c EXCEPT !.sent = <<got.request>>, !.resp = <<resp>>, !.clock = now]
    IN  /\ pc[p] = "access_exchange"
        /\ session' = SessionDelete(session, Key(c.providerName, "state"))
        /\ IF got.err # NoErr
           THEN /\ Goto(p, "done", [c1 EXCEPT !.err = got.err])
                /\ failed' = failed \cup {<<c.providerName, c.state>>}
           ELSE /\ Goto(p, "access_delete_state", [c1 EXCEPT !.exchanged = <<got.token>>])
                /\ UNCHANGED failed
        /\ UNCHANGED <<providers, config, client, heap, nextState, redirects, consumed, now, token>>

\* oauth2.GetAccessToken: the request goes out and `resp` comes back; Access
\* returns the error of a failed exchange as it is
AccessExchange(p, resp) ==
    LET c == call[p]
        got == GetAccessToken(providers[c.providerName], c.r, resp, now)
        c1 == [c EXCEPT !.sent = <<got.request>>, !.resp = <<resp>>, !.clock = now]
    IN  /\ pc[p] = "access_exchange"
        /\ IF got.err # NoErr
           THEN /\ Goto(p, "done", [c1 EXCEPT !.err = got.err])
                /\ failed' = failed \cup {<<c.providerName, c.state>>}
           ELSE /\ Goto(p, "access_delete_state", [c1 EXCEPT !.exchanged = <<got.token>>])
                /\ UNCHANGED failed
        /\ UNCHANGED <<providers, config, client, heap, session, nextState, redirects, consumed, now, token>>

\* an Access that leaves the provider's state in the session
DeleteStateKept(s, providerName) == s

\* the session once Access has deleted the provider's state
DeleteState(s, providerName) == SessionDelete(s, Key(providerName, "state"))

\* an Access that leaves the state's scope in the session
DeleteScopeKept(s, state) == s

\* the session once Access has deleted the state's scope
DeleteScope(s, state) == SessionDelete(s, Key(state, "scope"))

\* session.Delete of the state
AccessDeleteState(p) ==
    /\ pc[p] = "access_delete_state"
    /\ session' = DeleteState(session, call[p].providerName)
    /\ consumed' = consumed \cup {<<call[p].providerName, call[p].state>>}
    /\ failed' = failed \ {<<call[p].providerName, call[p].state>>}
    /\ Goto(p, "access_delete_scope", call[p])
    /\ UNCHANGED <<providers, config, client, heap, nextState, redirects, now, token>>

\* session.Delete of the scope, then the result: the redirect destination and
\* the token, its scope backfilled when the exchange gave none
AccessDeleteScope(p) ==
    LET c == call[p]
        providerConfig == providers[c.providerName]
        redirectUrl == IF providerConfig.Callback # ""
                       THEN providerConfig.Callback ELSE config.Callback
        exchanged == c.exchanged[1]
        filled == IF Len(exchanged.Scope) = 0
                  THEN [exchanged EXCEPT !.Scope = c.originalScope]
                  ELSE exchanged
    IN  /\ pc[p] = "access_delete_scope"
        /\ session' = DeleteScope(session, c.state)
        /\ Goto(p, "done",
                [c EXCEPT !.redirectUrl = redirectUrl,
                          !.token = <<tokenFromOAuth2(c.providerName, filled)>>])
        /\ UNCHANGED <<providers, config, failed, client, heap, nextState, redirects, consumed, now, token>>

----------------------------------------------------------------------------
(* the caller and the clock *)

\* the call of goroutine p has returned; the caller is free to make another
Return(p) ==
    /\ pc[p] = "done"
    /\ Goto(p, "idle", NoCall)
    /\ heap' = NoHeap
    /\ UNCHANGED <<providers, config, failed, client, session, nextState, redirects, consumed, now, token>>

\* a second passes
Tick ==
    /\ now < MaxClock
    /\ now' = now + 1
    /\ UNCHANGED <<providers, config, failed, client, heap, session, nextState, redirects, consumed, token, pc, call>>

\* goroutine p takes a step of Authorize, called for a provider of `names`
\* with a request of `requests`
Authorize(p, names, requests) ==
    \/ \E providerName \in names, r \in requests, randOk \in BOOLEAN :
           AuthorizeSetState(p, providerName, r, randOk)
    \/ AuthorizeSetScope(p)

\* goroutine p takes a step of Access, called for a provider of `names` with a
\* request of `requests` and answered by the provider with a response of
\* `responses`
Access(p, names, requests, responses) ==
    \/ \E providerName \in names, r \in requests :
           AccessGetState(p, providerName, r)
    \/ AccessGetScope(p)
    \/ \E resp \in responses : AccessExchange(p, resp)
    \/ AccessDeleteState(p)
    \/ AccessDeleteScope(p)

----------------------------------------------------------------------------
(* the Token entity *)

\* Authy.TokenFromSerialized: the caller gets the token that `data` encodes
TokenFromSerialized(p, data) ==
    /\ pc[p] = "idle"
    /\ token' = <<data>>
    /\ UNCHANGED <<providers, config, failed, client, heap, session, nextState, redirects, consumed, now, pc, call>>

\* a Refresh that takes the new token's scope as well
RefreshedWithScope(t, newToken) ==
    [t EXCEPT !.RefreshToken = newToken.RefreshToken,
              !.Value = newToken.AccessToken,
              !.Expires = newToken.Expires,
              !.Type = newToken.Type,
              !.Scope = newToken.Scope]

\* the token once Refresh has copied the new token's fields into it
Refreshed(t, newToken) ==
    [t EXCEPT !.RefreshToken = newToken.RefreshToken,
              !.Value = newToken.AccessToken,
              !.Expires = newToken.Expires,
              !.Type = newToken.Type]

\* a Refresh that copies the fields before it looks at the error
AfterRefreshUnchecked(t, got) == Refreshed(t, got.token)

\* the token after Refresh has called oauth2.Refresh: as it was when the call
\* failed, and with the new token's fields otherwise
AfterRefresh(t, got) == IF got.err # NoErr THEN t ELSE Refreshed(t, got.token)

\* a transport that keeps following the caller's token
TokenTranportOfLive(tt, t) == [tt EXCEPT !.token = t]

\* the TokenTransport once the caller's token has become t: it holds its own
\* copy of the Token, which an assignment to the caller's fields does not reach
TokenTranportAfter(tt, t) == tt

\* NewTokenTranport: a transport holding a copy of t (history: `made` keeps
\* the token it was made from, `refreshed` whether that token has been
\* refreshed since)
NewTokenTranport(t) == [token |-> t, made |-> t, refreshed |-> FALSE]

\* Token.Refresh on the caller's token, the provider answering with `resp`
TokenRefresh(p, resp) ==
    LET t == token[1]
        c == [NoCall EXCEPT !.op = "Refresh", !.providerName = t.Provider,
                            !.before = token, !.clock = now]
        got == Refresh(providers[t.Provider], oauth2(t), resp, now)
        c1 == [c EXCEPT !.sent = <<got.request>>, !.resp = <<resp>>]
    IN  /\ pc[p] = "idle"
        /\ token # <<>>
        /\ IF ~IsRefreshable(t)
           THEN /\ Goto(p, "done", [c EXCEPT !.err = Error("Token cannot be refreshed")])
                /\ UNCHANGED token
           ELSE IF t.Provider \notin DOMAIN providers
           THEN /\ Goto(p, "done", [c EXCEPT !.err = Error("unknown provider")])
                /\ UNCHANGED token
           ELSE IF t.Version = 2
           THEN /\ Goto(p, "done",
                        [c1 EXCEPT !.err = got.err,
                                   !.exchanged = IF got.err = NoErr
                                                 THEN <<got.token>> ELSE <<>>])
                /\ token' = <<AfterRefresh(t, got)>>
           ELSE /\ Goto(p, "done", c)
                /\ UNCHANGED token
        /\ client' = IF client = <<>> \/ ~IsRefreshable(t)
                         \/ t.Provider \notin DOMAIN providers \/ got.err # NoErr
                      THEN client
                      ELSE <<[TokenTranportAfter(client[1], token'[1])
                                 EXCEPT !.refreshed = TRUE]>>
        /\ UNCHANGED <<providers, config, failed, heap, session, nextState, redirects, consumed, now>>

\* Token.Expired on the caller's token
TokenExpired(p) ==
    /\ pc[p] = "idle"
    /\ token # <<>>
    /\ Goto(p, "done", [NoCall EXCEPT !.op = "Expired", !.before = token,
                                     !.clock = now,
                                     !.expired = <<Expired(token[1], now)>>])
    /\ UNCHANGED <<providers, config, failed, client, heap, session, nextState, redirects, consumed, now, token>>

\* Token.Client: the caller gets a client whose transport holds a copy of the
\* token
TokenClient(p) ==
    /\ pc[p] = "idle"
    /\ token # <<>>
    /\ client' = <<NewTokenTranport(token[1])>>
    /\ UNCHANGED <<providers, config, failed, heap, session, nextState, redirects, consumed, now, token, pc, call>>

\* the "Bearer " value RoundTrip writes
Bearer(value) == <<"Bearer " \o value>>

\* the heap after RoundTrip has built newReq from the caller's request: a new
\* header map with a copy of every value slice, and the Authorization header
\* of the token unless the token has expired
RoundTripHeaders(h, tt, clock) ==
    LET copied == CopyHeader(h, ReqHeader, NewReqHeader)
    IN  IF ~Expired(tt.token, clock)
        THEN SetHeader(copied, NewReqHeader, "Authorization", Bearer(tt.token.Value), "bearer")
        ELSE copied

\* TokenTransport.RoundTrip up to the call of the underlying transport, on a
\* request the caller made with `headers`
RoundTrip(p, headers) ==
    LET made == MakeHeader(NoHeap, ReqHeader, headers, "orig")
        h == RoundTripHeaders(made, client[1], now)
    IN  /\ pc[p] = "idle"
        /\ client # <<>>
        /\ heap' = h
        /\ Goto(p, "transport",
                [NoCall EXCEPT !.op = "RoundTrip", !.tt = client, !.clock = now,
                               !.headers = <<headers>>,
                               !.handed = <<ReadHeader(h, NewReqHeader)>>])
        /\ UNCHANGED <<providers, config, failed, client, session, nextState, redirects, consumed, now, token>>

\* Token.Expired of the earlier authy.go
LegacyExpired(t, clock) == t.Expires # <<>> /\ NowAfter(clock, t.Expires[1])

\* the heap after the RoundTrip of the earlier authy.go has built newReq: the
\* same copy, but the Authorization header of the token is written to the
\* header map of the caller's request
LegacyRoundTripHeaders(h, tt, clock) ==
    LET copied == CopyHeader(h, ReqHeader, NewReqHeader)
    IN  IF ~LegacyExpired(tt.token, clock)
        THEN SetHeader(copied, ReqHeader, "Authorization", Bearer(tt.token.Value), "bearer")
        ELSE copied

\* TokenTransport.RoundTrip of the earlier authy.go up to the call of the
\* underlying transport (`before` keeps the heap the call began with)
LegacyRoundTrip(p, headers) ==
    LET made == MakeHeader(NoHeap, ReqHeader, headers, "orig")
        h == LegacyRoundTripHeaders(made, client[1], now)
    IN  /\ pc[p] = "idle"
        /\ client # <<>>
        /\ heap' = h
        /\ Goto(p, "transport",
                [NoCall EXCEPT !.op = "LegacyRoundTrip", !.tt = client, !.clock = now,
                               !.headers = <<headers>>, !.before = <<made>>,
                               !.handed = <<ReadHeader(h, NewReqHeader)>>])
        /\ UNCHANGED <<providers, config, failed, client, session, nextState, redirects, consumed, now, token>>

\* what the underlying transport may do to the headers of the request it was
\* handed: nothing, set a header, or write into a value slice
TransportWrites ==
    {[kind |-> "none", name |-> ""]}
    \cup {[kind |-> k, name |-> n] : k \in {"set", "write"}, n \in {"Accept", "Authorization"}}

\* the underlying transport's RoundTrip on newReq, after which the call
\* returns and the requests are dropped
TransportRoundTrip(p, w) ==
    LET maps == heap.maps[NewReqHeader]
    IN  /\ pc[p] = "transport"
        /\ w.kind = "write" => w.name \in DOMAIN maps
        /\ heap' = CASE w.kind = "none" -> heap
                      [] w.kind = "set" ->
                            SetHeader(heap, NewReqHeader, w.name, <<"sent">>, "transport")
                      [] w.kind = "write" ->
                            [heap EXCEPT !.slices[maps[w.name]][1] = "sent"]
        /\ Goto(p, "done", call[p])
        /\ UNCHANGED <<providers, config, failed, client, session, nextState, redirects, consumed, now, token>>

\* a caller that holds one token and makes one call at a time
NextToken ==
    \/ \E data \in SerializedTokens : TokenFromSerialized(Main, data)
    \/ \E resp \in Responses : TokenRefresh(Main, resp)
    \/ Return(Main)
    \/ Tick

SpecToken == Init /\ [][NextToken]_vars

----------------------------------------------------------------------------
(* the session orchestrator *)

\* one session used by one request at a time
Next ==
    \/ Authorize(Main, ProviderNames, AuthorizeRequests)
    \/ Access(Main, ProviderNames, AccessRequests, Responses)
    \/ Return(Main)

Spec == Init /\ [][Next]_vars

\* the requests of a browser that arrives the plain way, and with a code at
\* the callback path when it comes back from the provider
PlainRequests(requests) ==
    {r \in requests :
        /\ ~r.TLS /\ ~r.XHTTPS
        /\ r \in AuthorizeRequests \/ (r.code # "" /\ r.Path # LoginPath)}

\* the providers the shared session is used with
SharedNames == {"gh", "sub"}

\* a transport failure, a provider error, and complete token responses with
\* and without a scope
FewResponses ==
    {resp \in Responses :
        \/ resp.kind = "network"
        \/ /\ resp.kind = "values"
           /\ resp.values.error \in {<<>>, <<"e">>}
           /\ resp.values.access_token = "new"
           /\ resp.values.token_type = "bearer"
           /\ resp.values.refresh_token = ""
           /\ resp.values.expires_in = <<>>}

\* one session shared by requests handled at the same time
NextConcurrent ==
    \E p \in Procs :
        \/ Authorize(p, SharedNames, PlainRequests(AuthorizeRequests))
        \/ Access(p, SharedNames, PlainRequests(AccessRequests), FewResponses)
        \/ Return(p)

SpecConcurrent == Init /\ [][NextConcurrent]_vars

\* the provider answers an exchange with a transport failure or a token
TwoResponses ==
    {resp \in FewResponses :
        resp.kind = "network" \/ (~resp.values.hasError /\ resp.values.scope = <<>>)}

\* a token the engine issued for "gh", with a refresh token
IssuedToken ==
    [Version |-> 2, Provider |-> "gh", Value |-> "abc", Scope |-> <<>>,
     Type |-> "bearer", Expires |-> <<>>, RefreshToken |-> "r1"]

\* one engine used by requests handled at the same time, all for one provider,
\* and by the holder of a token who refreshes it
NextEngine ==
    \/ \E p \in Procs :
        \/ Authorize(p, {"gh"}, PlainRequests(AuthorizeRequests))
        \/ Access(p, {"gh"}, PlainRequests(AccessRequests), TwoResponses)
        \/ Return(p)
    \/ token = <<>> /\ TokenFromSerialized(Main, IssuedToken)
    \/ \E resp \in TwoResponses : TokenRefresh(Main, resp)

SpecEngine == Init /\ [][NextEngine]_vars

\* one caller who signs in with "gh" and refreshes a token, the provider
\* answering with any response
NextExchange ==
    \/ Authorize(Main, {"gh"}, PlainRequests(AuthorizeRequests))
    \/ Access(Main, {"gh"}, PlainRequests(AccessRequests), Responses)
    \/ token = <<>> /\ TokenFromSerialized(Main, IssuedToken)
    \/ \E resp \in Responses : TokenRefresh(Main, resp)
    \/ Return(Main)

SpecExchange == Init /\ [][NextExchange]_vars

\* a caller that decodes a token, takes clients from it and sends requests
\* through them
NextClient ==
    \/ \E data \in SerializedTokens : client = <<>> /\ TokenFromSerialized(Main, data)
    \/ \E resp \in FewResponses : TokenRefresh(Main, resp)
    \/ TokenExpired(Main)
    \/ TokenClient(Main)
    \/ \E headers \in RequestHeaders : RoundTrip(Main, headers)
    \/ \E w \in TransportWrites : TransportRoundTrip(Main, w)
    \/ Return(Main)
    \/ Tick

SpecClient == Init /\ [][NextClient]_vars

\* the same caller with the client of the earlier authy.go
NextLegacy ==
    \/ \E data \in SerializedTokens : client = <<>> /\ TokenFromSerialized(Main, data)
    \/ TokenClient(Main)
    \/ \E headers \in RequestHeaders : LegacyRoundTrip(Main, headers)
    \/ \E w \in TransportWrites : TransportRoundTrip(Main, w)
    \/ Return(Main)
    \/ Tick

SpecLegacy == Init /\ [][NextLegacy]_vars

----------------------------------------------------------------------------
(* Properties *)

CSRFStateMissing == Error("state token is not set in session, possible CSRF")

CSRFMismatch == Error("invalid state param provided, possible CSRF")

\* goroutine p has finished a call of `op` and not yet returned
Finished(p, op) == pc[p] = "done" /\ call[p].op = op

\* the session held a state for the call's provider when the call began
HadState(c) == SessionHas(c.entry, Key(c.providerName, "state"))

\* that state
StateAtEntry(c) == c.entry[Key(c.providerName, "state")]

\* a response from which the exchange makes a token
Success(resp) ==
    /\ resp.kind = "values"
    /\ ~resp.values.hasError
    /\ resp.values.access_token # ""
    /\ resp.values.token_type # ""

\* C1: an Access whose `state` query parameter differs from the state stored
\* for its provider fails with the CSRF-mismatch error, sends no token-exchange
\* request, returns no token and leaves the session as it found it.
C1_MismatchRejected ==
    LET c == call[Main]
    IN  (c.op = "Access" /\ HadState(c) /\ c.r.state # StateAtEntry(c))
        => /\ session = c.entry
           /\ c.sent = <<>>
           /\ c.token = <<>>
           /\ pc[Main] \in {"access_scope", "done"}
           /\ pc[Main] = "done" => c.err = CSRFMismatch

\* a callback carrying another attempt's state and a code has been refused
C1_Witness ==
    LET c == call[Main]
    IN  /\ Finished(Main, "Access")
        /\ HadState(c)
        /\ c.r.state \in States \ {StateAtEntry(c)}
        /\ c.r.code # ""
        /\ c.err = CSRFMismatch

\* C2: an Access carrying the stored state and a code returns a token when the
\* provider's exchange succeeds, and a second Access for the same provider with
\* the same state and a code, no Authorize for that provider in between, fails
\* with the missing-CSRF-state error without sending a token-exchange request.
C2_SecondAccessFails ==
    LET c == call[Main]
    IN  /\ ( /\ Finished(Main, "Access")
             /\ HadState(c)
             /\ c.r.state = StateAtEntry(c)
             /\ c.r.code # ""
             /\ \A i \in 1..Len(c.resp) : Success(c.resp[i]) )
           => /\ c.err = NoErr
              /\ c.sent # <<>>
              /\ c.token # <<>>
        /\ ( /\ Finished(Main, "Access")
             /\ <<c.providerName, c.r.state>> \in c.consumed
             /\ c.r.code # "" )
           => /\ c.err = CSRFStateMissing
              /\ c.sent = <<>>
              /\ c.token = <<>>

\* the replayed callback has been refused
C2_Witness ==
    LET c == call[Main]
    IN  /\ Finished(Main, "Access")
        /\ <<c.providerName, c.r.state>> \in c.consumed
        /\ c.r.code # ""
        /\ c.err = CSRFStateMissing

\* C5: when Access returns a token, the session holds neither the state of its
\* provider nor the scope of the state it validated.
C5_EntriesDeletedOnSuccess ==
    LET c == call[Main]
    IN  (Finished(Main, "Access") /\ c.token # <<>>)
        => /\ ~SessionHas(session, Key(c.providerName, "state"))
           /\ ~SessionHas(session, Key(c.state, "scope"))

\* Access has returned a token whose scope came from the provider's response,
\* not from the backfill
C5_Witness ==
    LET c == call[Main]
    IN  /\ Finished(Main, "Access")
        /\ c.token # <<>>
        /\ c.resp[1].values.scope # <<>>
        /\ c.exchanged[1].Scope = c.token[1].Scope

\* the call began on a session holding its provider's state and that state's
\* scope, and carries that state
CarriesStoredState(c) ==
    /\ c.op = "Access"
    /\ HadState(c)
    /\ c.r.state = StateAtEntry(c)
    /\ SessionHas(c.entry, Key(c.r.state, "scope"))

\* C3: of two Access calls for the same provider and the same state on one
\* session, at most one gets a token from the provider and returns it, and
\* neither panics on a missing scope entry.
C3_StateConsumedOnce ==
    \A p, q \in Procs :
        ( /\ p # q
          /\ CarriesStoredState(call[p]) /\ CarriesStoredState(call[q])
          /\ call[p].providerName = call[q].providerName
          /\ call[p].r.state = call[q].r.state )
        => /\ ~(call[p].exchanged # <<>> /\ call[q].exchanged # <<>>)
           /\ ~(call[p].token # <<>> /\ call[q].token # <<>>)
           /\ call[p].err.type # "panic"

\* the URL a request was made to
RequestURL(r) ==
    URLString([Host |-> r.Host, Path |-> r.Path,
               Scheme |-> IF r.TLS \/ r.XHTTPS THEN "https" ELSE "http"])

\* the redirect_uri of the authorization URL Authorize returned for a state
AuthorizedRedirectURI(state) == redirects[state].query["redirect_uri"]

\* C4: when the callback request is made to exactly the redirect_uri of the
\* authorization URL, the redirect_uri Access sends in the token-exchange
\* request is that redirect_uri.
C4_SameRedirectURI ==
    LET c == call[Main]
    IN  ( /\ c.op = "Access"
          /\ c.sent # <<>>
          /\ c.state \in DOMAIN redirects
          /\ RequestURL(c.r) = AuthorizedRedirectURI(c.state) )
        => c.sent[1].form["redirect_uri"] = AuthorizedRedirectURI(c.state)

\* C6: when the token response carries no scope, the token Access returns has
\* the scope list the provider's configuration requests.
C6_ScopeRoundTrip ==
    LET c == call[Main]
    IN  ( /\ Finished(Main, "Access")
          /\ c.token # <<>>
          /\ c.resp[1].values.scope = <<>> )
        => c.token[1].Scope = providers[c.providerName].Scope

\* C7: a token response with access_token, token_type and expires_in makes a
\* token; it expires expires_in seconds after the exchange when expires_in
\* writes an integer, and never when it does not.
C7_ExpiresIn ==
    LET c == call[Main]
    IN  ( /\ Finished(Main, "Access")
          /\ c.resp # <<>>
          /\ Success(c.resp[1])
          /\ c.resp[1].values.expires_in # <<>> )
        => /\ c.err = NoErr
           /\ c.token # <<>>
           /\ LET parsed == ParseInt(c.resp[1].values.expires_in)
              IN  c.token[1].Expires =
                      IF parsed.err = "" THEN <<Time(c.clock, parsed.n)>> ELSE <<>>

RefreshNotSupported == Error("Token cannot be refreshed")

\* C8: the request Token.Refresh sends has grant_type refresh_token and carries
\* the refreshToken the token held when Refresh was called.
C8_RefreshRequest ==
    LET c == call[Main]
    IN  (Finished(Main, "Refresh") /\ c.sent # <<>>)
        => /\ c.sent[1].form["grant_type"] = "refresh_token"
           /\ c.sent[1].form["refresh_token"] = c.before[1].RefreshToken

\* C9: Refresh on a token whose version is not 2 or whose refreshToken is empty
\* fails with the refresh-not-supported error, sends no request and leaves the
\* token as it was.
C9_NotRefreshable ==
    LET c == call[Main]
    IN  ( /\ Finished(Main, "Refresh")
          /\ (c.before[1].Version # 2 \/ c.before[1].RefreshToken = "") )
        => /\ c.err = RefreshNotSupported
           /\ c.sent = <<>>
           /\ token = c.before

\* Refresh has refused a version-2 token without a refresh token
C9_Witness ==
    LET c == call[Main]
    IN  /\ Finished(Main, "Refresh")
        /\ c.before[1].Version = 2
        /\ c.before[1].RefreshToken = ""
        /\ c.err = RefreshNotSupported

\* C10: when Refresh on a refreshable token fails, the token is as it was
\* before the call.
C10_FailedRefreshKeepsToken ==
    LET c == call[Main]
    IN  ( /\ Finished(Main, "Refresh")
          /\ c.before[1].Version = 2
          /\ c.before[1].RefreshToken # ""
          /\ c.err # NoErr )
        => token = c.before

\* Refresh has failed on a response that lacks token_type but carries a new
\* access token and a new refresh token
C10_Witness ==
    LET c == call[Main]
    IN  /\ Finished(Main, "Refresh")
        /\ c.before[1].RefreshToken # ""
        /\ c.err.type = "oauth2.Error"
        /\ c.resp # <<>>
        /\ c.resp[1].values.access_token # ""
        /\ c.resp[1].values.token_type = ""
        /\ c.resp[1].values.refresh_token # c.before[1].RefreshToken

\* C11: when Refresh succeeds, the token's value, type, expiry and refresh
\* token are those of the token the refresh response was parsed into (value,
\* type and refresh token being the response's access_token, token_type and
\* refresh_token), and its provider, scope and version are as before the call.
C11_RefreshOverwrites ==
    LET c == call[Main]
    IN  (Finished(Main, "Refresh") /\ c.err = NoErr)
        => /\ c.exchanged # <<>>
           /\ token[1].Value = c.resp[1].values.access_token
           /\ token[1].Type = c.resp[1].values.token_type
           /\ token[1].RefreshToken = c.resp[1].values.refresh_token
           /\ token[1].Value = c.exchanged[1].AccessToken
           /\ token[1].Type = c.exchanged[1].Type
           /\ token[1].RefreshToken = c.exchanged[1].RefreshToken
           /\ token[1].Expires = c.exchanged[1].Expires
           /\ token[1].Provider = c.before[1].Provider
           /\ token[1].Scope = c.before[1].Scope
           /\ token[1].Version = c.before[1].Version

\* Refresh has succeeded on a response that carries a new value, a new refresh
\* token and a scope other than the token's
C11_Witness ==
    LET c == call[Main]
    IN  /\ Finished(Main, "Refresh")
        /\ c.err = NoErr
        /\ c.exchanged # <<>>
        /\ c.exchanged[1].Scope # <<>>
        /\ c.exchanged[1].Scope # c.before[1].Scope
        /\ token[1].Value # c.before[1].Value
        /\ token[1].RefreshToken # c.before[1].RefreshToken
        /\ token[1].Expires # c.before[1].Expires

\* the clock reads later than the token's expiry
PastExpiry(t, clock) ==
    t.Expires # <<>> /\ clock - t.Expires[1].base > t.Expires[1].add

\* C12: RoundTrip with a token Expired() does not report expired hands the
\* underlying transport the caller's headers with Authorization replaced by
\* "Bearer <value>", and the caller's request keeps the headers it had,
\* whatever is done to the headers of the request handed on.
C12_BearerOnCopy ==
    LET c == call[Main]
    IN  (c.op = "RoundTrip" /\ ~PastExpiry(c.tt[1].token, c.clock))
        => /\ c.handed[1] =
                  With(c.headers[1], "Authorization", Bearer(c.tt[1].token.Value))
           /\ ReadHeader(heap, ReqHeader) = c.headers[1]

\* a request that carried its own Authorization went out with the token's,
\* and the transport has since written into a header value it was handed
C12_Witness ==
    LET c == call[Main]
    IN  /\ Finished(Main, "RoundTrip")
        /\ ~PastExpiry(c.tt[1].token, c.clock)
        /\ "Authorization" \in DOMAIN c.headers[1]
        /\ c.handed[1]["Authorization"] # c.headers[1]["Authorization"]
        /\ ReadHeader(heap, NewReqHeader)["Accept"] # c.handed[1]["Accept"]

\* C13 as claimed: Expired() is true when expiresAt is the current time or
\* before it, and false when it is after it.
C13_ExpiredAtBoundary ==
    LET c == call[Main]
    IN  (Finished(Main, "Expired") /\ c.before[1].Expires # <<>>)
        => LET e == c.before[1].Expires[1]
           IN  c.expired[1] = (c.clock - e.base >= e.add)

\* C13 amended: Expired() is false when expiresAt is the current time or after
\* it, and true when it is before the current time.
C13_ExpiredStrictlyAfter ==
    LET c == call[Main]
    IN  (Finished(Main, "Expired") /\ c.before[1].Expires # <<>>)
        => LET e == c.before[1].Expires[1]
           IN  /\ c.clock - e.base = e.add => c.expired[1] = FALSE
               /\ c.clock - e.base > e.add => c.expired[1] = TRUE
               /\ c.clock - e.base < e.add => c.expired[1] = FALSE

\* Expired() was asked at the very second of a later expiry and said no
C13_Witness ==
    LET c == call[Main]
    IN  /\ Finished(Main, "Expired")
        /\ c.before[1].Expires # <<>>
        /\ c.clock > 0
        /\ c.clock - c.before[1].Expires[1].base = c.before[1].Expires[1].add
        /\ c.expired = <<FALSE>>

\* C14: once the token a client was made from has been refreshed, a request
\* through that client still goes out with the value the token had when the
\* client was made while that token's expiry has not passed, and with the
\* caller's headers once it has: never with the new value.
C14_ClientKeepsSnapshot ==
    LET c == call[Main]
    IN  (c.op = "RoundTrip" /\ c.tt[1].refreshed)
        => LET made == c.tt[1].made
           IN  /\ c.handed[1] =
                      IF PastExpiry(made, c.clock) THEN c.headers[1]
                      ELSE With(c.headers[1], "Authorization", Bearer(made.Value))
               /\ made.Value # token[1].Value
                      => \A n \in DOMAIN c.handed[1] :
                             c.handed[1][n] # Bearer(token[1].Value)

\* a request went through a client made before the refresh and carried the
\* old value, the caller's token having a new value and another expiry
C14_Witness ==
    LET c == call[Main]
    IN  /\ Finished(Main, "RoundTrip")
        /\ c.tt[1].refreshed
        /\ token[1].Value # c.tt[1].made.Value
        /\ token[1].Expires # c.tt[1].made.Expires
        /\ c.handed[1]["Authorization"] = Bearer(c.tt[1].made.Value)

\* C20: RoundTrip with a token Expired() reports expired hands the underlying
\* transport exactly the caller's headers and sends no refresh request.
C20_ExpiredPassesThrough ==
    LET c == call[Main]
    IN  (c.op = "RoundTrip" /\ PastExpiry(c.tt[1].token, c.clock))
        => /\ c.handed[1] = c.headers[1]
           /\ c.sent = <<>>
           /\ c.resp = <<>>

\* requests with and without an Authorization of their own have gone through
\* a client whose token has expired
C20_Witness ==
    LET c == call[Main]
    IN  /\ Finished(Main, "RoundTrip")
        /\ PastExpiry(c.tt[1].token, c.clock)
        /\ IsRefreshable(c.tt[1].token)
        /\ "Authorization" \in DOMAIN c.headers[1]
        /\ c.handed[1]["Authorization"] = <<"Basic pw">>

\* C15: when the token exchange of an Access fails, Access returns the
\* exchange's error and no token, and the session is as the call found it, the
\* state and scope entries of the attempt still there; an Access that later
\* presents that state with a code gets a token when its exchange succeeds.
C15_FailedExchangeKeepsAttempt ==
    LET c == call[Main]
    IN  /\ ( /\ Finished(Main, "Access")
             /\ c.resp # <<>>
             /\ ~Success(c.resp[1]) )
           => /\ c.err # NoErr
              /\ c.err = ReadResponse(providers[c.providerName], c.resp[1], c.clock).err
              /\ c.token = <<>>
              /\ session = c.entry
              /\ SessionHas(session, Key(c.providerName, "state"))
              /\ SessionGet(session, Key(c.providerName, "state")) = c.state
              /\ SessionHas(session, Key(c.state, "scope"))
        /\ ( /\ Finished(Main, "Access")
             /\ <<c.providerName, c.r.state>> \in c.failed
             /\ c.r.code # ""
             /\ \A i \in 1..Len(c.resp) : Success(c.resp[i]) )
           => /\ c.err = NoErr
              /\ c.token # <<>>

\* an Access has got a token with a state whose earlier exchange had failed
C15_Witness ==
    LET c == call[Main]
    IN  /\ Finished(Main, "Access")
        /\ <<c.providerName, c.r.state>> \in c.failed
        /\ c.r.code # ""
        /\ c.resp # <<>>
        /\ Success(c.resp[1])
        /\ c.token # <<>>

MissingCode == Error("code was not found in the query parameters")

\* the provider of the call is registered and speaks OAuth 2
OAuth2Provider(c) ==
    c.providerName \in DOMAIN NewAuthy /\ NewAuthy[c.providerName].Provider.OAuth = 2

\* C16: Access sends a token-exchange request only when the session held a
\* state for its provider, the `state` query parameter is that state and the
\* `code` query parameter is not empty; without a stored state it fails with
\* the missing-CSRF-state error, and with the stored state presented but no
\* code it fails with the missing-code error, the session unchanged in both.
C16_ExchangeOnlyAfterChecks ==
    LET c == call[Main]
    IN  /\ (c.op = "Access" /\ c.sent # <<>>)
           => /\ HadState(c)
              /\ c.r.state = StateAtEntry(c)
              /\ c.r.code # ""
        /\ (Finished(Main, "Access") /\ OAuth2Provider(c) /\ ~HadState(c))
           => /\ c.err = CSRFStateMissing
              /\ c.sent = <<>>
              /\ session = c.entry
        /\ ( /\ Finished(Main, "Access")
             /\ HadState(c)
             /\ c.r.state = StateAtEntry(c)
             /\ c.r.code = "" )
           => /\ c.err = MissingCode
              /\ c.sent = <<>>
              /\ session = c.entry

\* a callback carrying the stored state and no code has been refused
C16_Witness ==
    LET c == call[Main]
    IN  /\ Finished(Main, "Access")
        /\ HadState(c)
        /\ c.r.state = StateAtEntry(c)
        /\ c.r.code = ""
        /\ c.err = MissingCode
        /\ session = c.entry

\* C17: when Authorize succeeds, the session holds a state under the
\* provider's key, the provider's requested scopes joined by commas under that
\* state's key, and the authorization URL carries that state as its `state`
\* parameter.
C17_AuthorizeStores ==
    LET c == call[Main]
    IN  (Finished(Main, "Authorize") /\ c.err = NoErr)
        => /\ c.state \in States
           /\ SessionHas(session, Key(c.providerName, "state"))
           /\ SessionGet(session, Key(c.providerName, "state")) = c.state
           /\ SessionHas(session, Key(c.state, "scope"))
           /\ SessionGet(session, Key(c.state, "scope"))
                  = Join(NewAuthy[c.providerName].Scope, <<",">>)
           /\ "state" \in DOMAIN c.dest.query
           /\ c.dest.query["state"] = c.state

\* Authorize has succeeded for a provider that requests two scopes
C17_Witness ==
    LET c == call[Main]
    IN  /\ Finished(Main, "Authorize")
        /\ c.err = NoErr
        /\ Len(NewAuthy[c.providerName].Scope) = 2
        /\ SessionGet(session, Key(c.state, "scope")) = <<"a", ",", "b">>
        /\ c.dest.query["state"] = c.state

\* C19: the provider registry stays what NewAuthy built, and every
\* authorization URL carries the state of the Authorize call that returned it.
C19_RegistryReadOnly ==
    /\ providers = NewAuthy
    /\ \A s \in DOMAIN redirects : redirects[s].query["state"] = s
    /\ \A p \in Procs :
           (Finished(p, "Authorize") /\ call[p].err = NoErr)
               => call[p].dest.query["state"] = call[p].state

\* a token has been refreshed, and two Authorize calls for one provider have
\* run at the same time and both returned a URL
C19_Witness ==
    \E p, q \in Procs :
        /\ p # q
        /\ token # <<>> /\ token[1].Value # IssuedToken.Value
        /\ Finished(p, "Authorize") /\ Finished(q, "Authorize")
        /\ call[p].providerName = call[q].providerName
        /\ call[p].err = NoErr /\ call[q].err = NoErr
        /\ call[p].state # call[q].state
        /\ call[p].entry = call[q].entry

\* the call has produced a token: Access returned one, Refresh put the
\* response's values into the caller's
Produced(c) ==
    IF c.op = "Access" THEN c.err = NoErr /\ c.token # <<>>
    ELSE /\ c.err = NoErr
         /\ c.exchanged # <<>>
         /\ token[1].Value = c.exchanged[1].AccessToken
         /\ token[1].Type = c.exchanged[1].Type

\* C18: an exchange or a refresh whose response body parses produces a token
\* exactly when the body has no `error` key and access_token and token_type
\* are not empty; with an `error` key the error's code is the stripped value,
\* or invalid_response when that is empty; without one but lacking
\* access_token or token_type the error's code is invalid_response and it
\* carries the raw response; no token is produced with either error.
C18_TokenOrAuthError ==
    LET c == call[Main]
    IN  ( /\ pc[Main] = "done"
          /\ c.op \in {"Access", "Refresh"}
          /\ c.resp # <<>>
          /\ c.resp[1].kind = "values" )
        => LET v == c.resp[1].values
               complete == ~v.hasError /\ v.access_token # "" /\ v.token_type # ""
               code == SelectSeq(v.error, LAMBDA x : x \notin {"\t", "\\"})
           IN  /\ Produced(c) <=> complete
               /\ ~complete
                     => /\ c.err.type = "oauth2.Error"
                        /\ c.token = <<>>
                        /\ c.op = "Refresh" => token = c.before
                        /\ c.err.detail[1].Raw = v
               /\ v.hasError
                     => c.err.detail[1].Code =
                            IF code = <<>> THEN <<"invalid_response">> ELSE code
               /\ (~v.hasError /\ ~complete)
                     => c.err.detail[1].Code = <<"invalid_response">>

\* a refresh has failed with invalid_response on an `error` value that is
\* nothing once stripped
C18_Witness ==
    LET c == call[Main]
    IN  /\ Finished(Main, "Refresh")
        /\ c.resp # <<>>
        /\ c.resp[1].kind = "values"
        /\ c.resp[1].values.hasError
        /\ c.resp[1].values.error # <<>>
        /\ c.resp[1].values.access_token # ""
        /\ c.err.type = "oauth2.Error"
        /\ c.err.detail[1].Code = <<"invalid_response">>

\* between calls, or with a call finished
AtCallBoundary == pc[Main] \in {"idle", "done"}

\* C21: between calls, every scope entry of the session belongs to a state
\* some provider's state entry holds; after a successful Access for a provider
\* the session holds no state the provider was given and no scope of one.
C21_ScopeHasState ==
    AtCallBoundary
    => /\ \A k \in DOMAIN session :
              k[3] = "scope"
                  => \E P \in ProviderNames :
                         /\ SessionHas(session, Key(P, "state"))
                         /\ SessionGet(session, Key(P, "state")) = k[2]
       /\ LET c == call[Main]
          IN  (Finished(Main, "Access") /\ c.token # <<>>)
              => \A s \in DOMAIN redirects :
                     redirects[s].base = NewAuthy[c.providerName].Provider.AuthorizeURL
                         => ~SessionHas(session, Key(s, "scope"))

\* C22: when Authorize returns an error, the session is what it was when the
\* call began.
C22_FailedAuthorizeKeepsSession ==
    LET c == call[Main]
    IN  (Finished(Main, "Authorize") /\ c.err # NoErr) => session = c.entry

\* C23: after a successful Refresh the token has a refresh token and is still
\* refreshable.
C23_StaysRefreshable ==
    LET c == call[Main]
    IN  (Finished(Main, "Refresh") /\ c.err = NoErr)
        => /\ token[1].RefreshToken # ""
           /\ token[1].Version = 2

\* C24: on the same request, token and clock, the RoundTrip of the earlier
\* authy.go hands the underlying transport the headers the RoundTrip of
\* token.go hands it, and leaves the caller's request with the same headers.
C24_SameRoundTrip ==
    LET c == call[Main]
    IN  (c.op = "LegacyRoundTrip" /\ pc[Main] = "transport")
        => LET h == RoundTripHeaders(c.before[1], c.tt[1], c.clock)
           IN  /\ c.handed[1] = ReadHeader(h, NewReqHeader)
               /\ ReadHeader(heap, ReqHeader) = ReadHeader(h, ReqHeader)

====
